---- MODULE Spec2Model ----
(***************************************************************************)
(* Model of the aq command line front end, src/cli/run.go: the command     *)
(* table, the per-command Before preconditions, the rm confirmation and    *)
(* the exit code mapping of Run/msg.                                       *)
(*                                                                         *)
(* One behaviour is one process run.  The raw arguments, the environment   *)
(* and the answer the terminal would give to a prompt are fixed in the     *)
(* initial state; the result of the action handler is chosen when the      *)
(* handler runs.  Positional arguments are sequences of one-character      *)
(* strings so that strings.Split and strings.HasPrefix are computed.       *)
(* Flag values and messages are plain strings: the code only compares      *)
(* them with literals.                                                     *)
(*                                                                         *)
(* The runs covered are those whose flags parse: an undefined flag and     *)
(* the built-in help and version flags of the cli library end the run      *)
(* inside the library before any code of run.go is reached.                *)
(***************************************************************************)
EXTENDS Integers, Sequences, FiniteSets, TLC

VARIABLES
    pc,           \* position of the run: Idle, Parsed, Unmatched, Validated, Returned, Exited
    name,         \* first token of os.Args after the program name, or NoToken
    args,         \* positional arguments of the subcommand, in order
    bucketFlag,   \* value given with --bucket, or Unset
    envBucket,    \* value of AQ_DEFAULT_BUCKET, or Unset
    forceFlag,    \* --force was passed (rm only)
    formatFlag,   \* value given with --source_format, or Unset (load only)
    ask,          \* what prompt.Ask returns if it is called: [answer, failed]
    command,      \* name of the matched command, or NoCommand
    validation,   \* None, Accepted or Rejected
    result,       \* error returned by app.Run, or NoErr
    errOut,       \* lines written to the error stream: [prefix, text]
    listing,      \* command names written by the fallback action
    exitCode,     \* process exit code, NotExited while running
    trace         \* events of the run, in order

vars == <<pc, name, args, bucketFlag, envBucket, forceFlag, formatFlag, ask,
          command, validation, result, errOut, listing, exitCode, trace>>

----------------------------------------------------------------------------
(* Bounds of the input space *)

MaxLen == 3      \* longest DATABASE / NAME argument, in characters
MaxTail == 1     \* longest remainder of a SOURCE argument after its prefix
MaxArgs == 3     \* most positional arguments

----------------------------------------------------------------------------
(* Values *)

Unset == "UNSET"
NoToken == "NOTOKEN"
NoCommand == "NOCOMMAND"
NoErr == "NOERR"
NotExited == -1
Prog == "aq"

Chars == {"a", "."}

Strs(n) == UNION {[1..k -> Chars] : k \in 0..n}

S3Prefix == <<"s", "3", ":", "/", "/">>

SourcePrefixes ==
    {S3Prefix, <<"s", "3", ":", "/">>, <<"S", "3", ":", "/", "/">>,
     <<"a", "s", "3", ":", "/", "/">>, <<>>}

SourceStrs == {p \o t : p \in SourcePrefixes, t \in Strs(MaxTail)}

NameStrs == Strs(MaxLen) \cup {S3Prefix}

\* The argument lists of a run: NAME, then SOURCE, then SCHEMA and beyond.
ArgLists ==
    {<<>>}
    \cup {<<a>> : a \in NameStrs}
    \cup UNION {{<<a, s>> \o [i \in 1..k |-> <<"a">>] : a \in NameStrs, s \in SourceStrs}
                : k \in 0..(MaxArgs - 2)}

----------------------------------------------------------------------------
(* The command table *)

Commands ==
    << [Name |-> "query", Flags |-> {"bucket", "object_prefix", "timeout"}],
       [Name |-> "ls",    Flags |-> {"bucket", "object_prefix"}],
       [Name |-> "head",  Flags |-> {"bucket", "object_prefix", "max_rows"}],
       [Name |-> "mk",    Flags |-> {"bucket", "object_prefix"}],
       [Name |-> "rm",    Flags |-> {"bucket", "object_prefix", "force"}],
       [Name |-> "load",  Flags |-> {"bucket", "object_prefix", "source_format", "partitioning"}] >>

CommandNames == {Commands[i].Name : i \in 1..Len(Commands)}

FlagsOf(n) ==
    IF n \in CommandNames
    THEN Commands[CHOOSE i \in 1..Len(Commands) : Commands[i].Name = n].Flags
    ELSE {}

\* app.Command(name): the command registered under the first token, if any.
Lookup(n) == IF n \in CommandNames THEN n ELSE NoCommand

\* Mutation: the loop over Commands stops one short.
SubcommandNames_ShortLoop == [i \in 1..(Len(Commands) - 1) |-> Commands[i].Name]

\* The action of the app itself: the names of Commands, in table order.
SubcommandNames == [i \in 1..Len(Commands) |-> Commands[i].Name]

----------------------------------------------------------------------------
(* Flags and positional arguments of the parsed invocation *)

DefaultSourceFormat == "NEWLINE_DELIMITED_JSON"

\* A string flag: the value passed, else the environment variable, else the default.
FlagString(passed, env, default) ==
    IF passed # Unset THEN passed
    ELSE IF env # Unset THEN env
    ELSE default

Bucket == FlagString(bucketFlag, envBucket, "")

SourceFormat == FlagString(formatFlag, Unset, DefaultSourceFormat)

Force == forceFlag

NArg == Len(args)

\* c.Args().Get(n), counted from 0: the empty string when there is no such argument.
Get(n) == IF n < Len(args) THEN args[n + 1] ELSE <<>>

First == Get(0)

\* strings.Split(s, sep) for a one-character separator.
RECURSIVE Split(_, _)
Split(s, sep) ==
    IF s = <<>> THEN << <<>> >>
    ELSE LET rest == Split(Tail(s), sep)
         IN  IF Head(s) = sep
             THEN << <<>> >> \o rest
             ELSE << <<Head(s)>> \o Head(rest) >> \o Tail(rest)

\* strings.HasPrefix(s, p)
HasPrefix(s, p) == Len(s) >= Len(p) /\ SubSeq(s, 1, Len(p)) = p

----------------------------------------------------------------------------
(* Preconditions.  Each yields the error of the Before function (NoErr for *)
(* nil), its exit code, and the checks it evaluated, in order, with        *)
(* "prompt" where prompt.Ask was called.  The                              *)
(* messages are the literals of the code, with its backquotes written as   *)
(* single quotes.                                                          *)

MsgQuery == "QUERY must be specified."
MsgBucket == "bucket must be specified."
MsgHeadArgs == "DATABASE and TABLE must be specified."
MsgHeadDot == "[DATABASE].[TABLE] must contain '.'."
MsgMkArgs == "DATABASE must be specified."
MsgMkLoad == "If you want to create table, use 'load' subcommand."
MsgRmArgs == "NAME must be specified."
MsgCanceled == "Canceled."
MsgSource == "'SOURCE' must start with 's3://'"
MsgFormat == "Now aq support only NEWLINE_DELIMITED_JSON."

\* cli.NewExitError(message, 1) returned after the checks in ev.
ExitError(message, ev) == [err |-> message, code |-> 1, events |-> ev]

Nil(ev) == [err |-> NoErr, code |-> 0, events |-> ev]

\* Mutation: query checks the bucket before the argument count, like the others.
BeforeQuery_BucketFirst ==
    IF Bucket = "" THEN ExitError(MsgBucket, <<"bucket">>)
    ELSE IF NArg = 0 THEN ExitError(MsgQuery, <<"bucket", "args">>)
    ELSE Nil(<<"bucket", "args">>)

BeforeQuery ==
    IF NArg = 0 THEN ExitError(MsgQuery, <<"args">>)
    ELSE IF Bucket = "" THEN ExitError(MsgBucket, <<"args", "bucket">>)
    ELSE Nil(<<"args", "bucket">>)

\* Mutation: ls has no bucket check.
BeforeLs_NoCheck == Nil(<<>>)

BeforeLs ==
    IF Bucket = "" THEN ExitError(MsgBucket, <<"bucket">>)
    ELSE Nil(<<"bucket">>)

\* Mutation: head rejects fewer than 2 parts instead of other than 2.
BeforeHead_AtLeastTwo ==
    IF Bucket = "" THEN ExitError(MsgBucket, <<"bucket">>)
    ELSE IF NArg = 0 THEN ExitError(MsgHeadArgs, <<"bucket", "args">>)
    ELSE IF Len(Split(First, ".")) < 2
         THEN ExitError(MsgHeadDot, <<"bucket", "args", "shape">>)
    ELSE Nil(<<"bucket", "args", "shape">>)

BeforeHead ==
    IF Bucket = "" THEN ExitError(MsgBucket, <<"bucket">>)
    ELSE IF NArg = 0 THEN ExitError(MsgHeadArgs, <<"bucket", "args">>)
    ELSE IF Len(Split(First, ".")) # 2
         THEN ExitError(MsgHeadDot, <<"bucket", "args", "shape">>)
    ELSE Nil(<<"bucket", "args", "shape">>)

\* Mutation: mk rejects more than 2 parts instead of 2 or more.
BeforeMk_MoreThanTwo ==
    IF Bucket = "" THEN ExitError(MsgBucket, <<"bucket">>)
    ELSE IF NArg = 0 THEN ExitError(MsgMkArgs, <<"bucket", "args">>)
    ELSE IF Len(Split(First, ".")) > 2
         THEN ExitError(MsgMkLoad, <<"bucket", "args", "shape">>)
    ELSE Nil(<<"bucket", "args", "shape">>)

BeforeMk ==
    IF Bucket = "" THEN ExitError(MsgBucket, <<"bucket">>)
    ELSE IF NArg = 0 THEN ExitError(MsgMkArgs, <<"bucket", "args">>)
    ELSE IF Len(Split(First, ".")) >= 2
         THEN ExitError(MsgMkLoad, <<"bucket", "args", "shape">>)
    ELSE Nil(<<"bucket", "args", "shape">>)

\* Mutation: rm asks whether or not --force was passed.
BeforeRm_IgnoresForce ==
    IF Bucket = "" THEN ExitError(MsgBucket, <<"bucket">>)
    ELSE IF NArg = 0 THEN ExitError(MsgRmArgs, <<"bucket", "args">>)
    ELSE LET ev == <<"bucket", "args", "confirm", "prompt">>
         IN  IF ~ask.answer THEN ExitError(MsgCanceled, ev) ELSE Nil(ev)

\* Mutation: rm asks before it has checked the bucket and the argument.
BeforeRm_AsksFirst ==
    LET answer == IF Force THEN TRUE ELSE ask.answer
        ev == IF Force THEN <<"confirm">> ELSE <<"confirm", "prompt">>
    IN  IF ~answer THEN ExitError(MsgCanceled, ev)
        ELSE IF Bucket = "" THEN ExitError(MsgBucket, ev \o <<"bucket">>)
        ELSE IF NArg = 0 THEN ExitError(MsgRmArgs, ev \o <<"bucket", "args">>)
        ELSE Nil(ev \o <<"bucket", "args">>)

\* The answer of rm: true under --force, else what prompt.Ask returns; the
\* error of prompt.Ask is dropped.
BeforeRm ==
    IF Bucket = "" THEN ExitError(MsgBucket, <<"bucket">>)
    ELSE IF NArg = 0 THEN ExitError(MsgRmArgs, <<"bucket", "args">>)
    ELSE LET answer == IF Force THEN TRUE ELSE ask.answer
             ev == IF Force THEN <<"bucket", "args", "confirm">>
                   ELSE <<"bucket", "args", "confirm", "prompt">>
         IN  IF ~answer THEN ExitError(MsgCanceled, ev) ELSE Nil(ev)

\* Mutation: load tests the first positional argument instead of the second.
BeforeLoad_FirstArg ==
    IF Bucket = "" THEN ExitError(MsgBucket, <<"bucket">>)
    ELSE IF ~HasPrefix(Get(0), S3Prefix)
         THEN ExitError(MsgSource, <<"bucket", "source">>)
    ELSE IF SourceFormat # DefaultSourceFormat
         THEN ExitError(MsgFormat, <<"bucket", "source", "format">>)
    ELSE Nil(<<"bucket", "source", "format">>)

BeforeLoad ==
    IF Bucket = "" THEN ExitError(MsgBucket, <<"bucket">>)
    ELSE IF ~HasPrefix(Get(1), S3Prefix)
         THEN ExitError(MsgSource, <<"bucket", "source">>)
    ELSE IF SourceFormat # DefaultSourceFormat
         THEN ExitError(MsgFormat, <<"bucket", "source", "format">>)
    ELSE Nil(<<"bucket", "source", "format">>)

----------------------------------------------------------------------------
(* The run *)

\* What the terminal can give to prompt.Ask: yes, no, or a failed read.
PromptResults ==
    {[answer |-> TRUE, failed |-> FALSE],
     [answer |-> FALSE, failed |-> FALSE],
     [answer |-> FALSE, failed |-> TRUE]}

\* What an action handler can return: nil or an error.
ActionResults == {NoErr, "handler failed"}

FormatFlags == {Unset, DefaultSourceFormat, "CSV", ""}

BucketFlags == {Unset, "", "b"}

EnvBuckets == {Unset, "", "e"}

Tokens == CommandNames \cup {NoToken, "foo"}

Init ==
    /\ pc = "Idle"
    /\ name \in Tokens
    /\ args \in IF name = NoToken THEN {<<>>} ELSE ArgLists
    /\ bucketFlag \in BucketFlags
    /\ envBucket \in EnvBuckets
    /\ forceFlag \in IF "force" \in FlagsOf(name) THEN BOOLEAN ELSE {FALSE}
    /\ formatFlag \in IF "source_format" \in FlagsOf(name) THEN FormatFlags ELSE {Unset}
    /\ ask \in IF name = "rm" THEN PromptResults ELSE {[answer |-> FALSE, failed |-> TRUE]}
    /\ command = NoCommand
    /\ validation = "None"
    /\ result = NoErr
    /\ errOut = <<>>
    /\ listing = <<>>
    /\ exitCode = NotExited
    /\ trace = <<>>

inputs == <<name, args, bucketFlag, envBucket, forceFlag, formatFlag, ask>>

\* app.Run(os.Args): the first token selects a command, or the app's own action.
Parse ==
    /\ pc = "Idle"
    /\ command' = Lookup(name)
    /\ pc' = IF Lookup(name) # NoCommand THEN "Parsed" ELSE "Unmatched"
    /\ trace' = Append(trace, "parse")
    /\ UNCHANGED <<inputs, validation, result, errOut, listing, exitCode>>

\* app.Action: write the subcommand names and return.
Fallback ==
    /\ pc = "Unmatched"
    /\ listing' = SubcommandNames
    /\ result' = NoErr
    /\ pc' = "Returned"
    /\ trace' = Append(trace, "fallback")
    /\ UNCHANGED <<inputs, command, validation, errOut, exitCode>>

\* Mutation: the error of Before is dropped and the action runs anyway.
AfterBefore_Always(r) == "Validated"

\* Where the run goes after Before returned r: on to the action, or out.
AfterBefore(r) == IF r.err = NoErr THEN "Validated" ELSE "Exited"

\* The command's Before ran and returned r.  An exit error ends the process
\* with its own message and code; nil lets the action run.
Validate(r) ==
    /\ trace' = trace \o <<"before">> \o r.events
    /\ validation' = IF r.err = NoErr THEN "Accepted" ELSE "Rejected"
    /\ pc' = AfterBefore(r)
    /\ IF r.err = NoErr
       THEN UNCHANGED <<errOut, exitCode>>
       ELSE /\ errOut' = Append(errOut, [prefix |-> "", text |-> r.err])
            /\ exitCode' = r.code
    /\ UNCHANGED <<inputs, command, result, listing>>

RunBeforeQuery == pc = "Parsed" /\ command = "query" /\ Validate(BeforeQuery)

RunBeforeLs == pc = "Parsed" /\ command = "ls" /\ Validate(BeforeLs)

RunBeforeHead == pc = "Parsed" /\ command = "head" /\ Validate(BeforeHead)

RunBeforeMk == pc = "Parsed" /\ command = "mk" /\ Validate(BeforeMk)

RunBeforeRm == pc = "Parsed" /\ command = "rm" /\ Validate(BeforeRm)

RunBeforeLoad == pc = "Parsed" /\ command = "load" /\ Validate(BeforeLoad)

\* The command's Action: the handler of package cmd runs and returns.
Action ==
    /\ pc = "Validated"
    /\ \E r \in ActionResults : result' = r
    /\ pc' = "Returned"
    /\ trace' = Append(trace, "action")
    /\ UNCHANGED <<inputs, command, validation, errOut, listing, exitCode>>

\* Mutation: msg reports the error and still returns 0.
MsgCode_Zero(err) == 0

\* msg(err): the exit code of an error, and the line it writes.
MsgCode(err) == IF err # NoErr THEN 1 ELSE 0

MsgLines(err) == IF err # NoErr THEN <<[prefix |-> Prog, text |-> err]>> ELSE <<>>

Msg ==
    /\ pc = "Returned"
    /\ errOut' = errOut \o MsgLines(result)
    /\ exitCode' = MsgCode(result)
    /\ pc' = "Exited"
    /\ trace' = Append(trace, "msg")
    /\ UNCHANGED <<inputs, command, validation, result, listing>>

Next ==
    \/ Parse
    \/ Fallback
    \/ RunBeforeQuery
    \/ RunBeforeLs
    \/ RunBeforeHead
    \/ RunBeforeMk
    \/ RunBeforeRm
    \/ RunBeforeLoad
    \/ Action
    \/ Msg

Spec == Init /\ [][Next]_vars

----------------------------------------------------------------------------
(* Vocabulary of the properties *)

Count(ev) == Cardinality({i \in 1..Len(trace) : trace[i] = ev})

Pos(ev) == CHOOSE i \in 1..Len(trace) : trace[i] = ev

Exited == pc = "Exited"

LastErr == errOut[Len(errOut)]

\* The rejection of the run: written bare, exit code 1.
RejectedWith(m) ==
    /\ validation = "Rejected"
    /\ exitCode = 1
    /\ errOut = <<[prefix |-> "", text |-> m]>>

NoBucket == bucketFlag = Unset /\ envBucket = Unset

Dots(s) == Cardinality({i \in 1..Len(s) : s[i] = "."})

\* s is "s3://" followed by anything.
IsS3(s) == Len(s) >= 5 /\ s[1] = "s" /\ s[2] = "3" /\ s[3] = ":" /\ s[4] = "/" /\ s[5] = "/"

\* Before has run for command c.
Checked(c) == command = c /\ validation # "None"

CheckNames == {"args", "bucket", "shape", "confirm", "source", "format"}

IsCheck(e) == e \in CheckNames

\* The checks Before evaluated, in order.
Evaluated == SelectSeq(trace, IsCheck)

----------------------------------------------------------------------------
(* C1 *)

\* C1 as stated: every run of a command without the bucket flag and without
\* AQ_DEFAULT_BUCKET ends with exit code 1 and "bucket must be specified.".
C1_AsStated ==
    (Exited /\ command # NoCommand /\ NoBucket) => RejectedWith(MsgBucket)

\* C1, amended: a run without the bucket flag and without AQ_DEFAULT_BUCKET
\* ends with exit code 1; the message is "bucket must be specified." for ls,
\* head, mk, rm and load whatever the arguments and other flags, and for
\* query when at least one positional argument is given; query without a
\* positional argument ends with "QUERY must be specified.".
C1_BucketRequired ==
    (Exited /\ command # NoCommand /\ NoBucket) =>
        IF command = "query" /\ NArg = 0
        THEN RejectedWith(MsgQuery)
        ELSE RejectedWith(MsgBucket)

C1_Witness ==
    /\ Exited /\ command = "ls" /\ NoBucket /\ NArg = 1
    /\ RejectedWith(MsgBucket)

----------------------------------------------------------------------------
(* C2 *)

\* C2: an action handler runs only after the command's Before accepted: at
\* no point has a handler run while the validation is Rejected or not yet
\* made, and a rejected run has ended without any handler run.
C2_ActionOnlyAfterAccepted ==
    /\ Count("action") > 0 =>
          /\ validation = "Accepted"
          /\ Count("before") = 1
          /\ Pos("before") < Pos("action")
    /\ validation = "Rejected" =>
          /\ Count("action") = 0
          /\ Exited
          /\ result = NoErr

C2_Witness == Exited /\ Count("action") = 1 /\ validation = "Accepted"

----------------------------------------------------------------------------
(* C3 *)

\* C3: a run that has not ended can take a step and one that has ended
\* cannot; it ends in exactly one outcome, with exit code 0 exactly when no
\* command matched or the validation accepted and the handler succeeded,
\* and exit code 1 exactly when the validation rejected or it accepted and
\* the handler failed, the handler's error then being the one line written
\* to the error stream, prefixed by the program name.
C3_ExitCode ==
    /\ exitCode \in {NotExited, 0, 1}
    /\ Exited <=> exitCode # NotExited
    /\ Exited <=> ~ENABLED Next
    /\ Exited =>
          /\ (exitCode = 0) <=>
                \/ command = NoCommand
                \/ validation = "Accepted" /\ result = NoErr /\ Count("action") = 1
          /\ (exitCode = 1) <=>
                \/ validation = "Rejected"
                \/ validation = "Accepted" /\ result # NoErr /\ Count("action") = 1
          /\ (validation = "Accepted" /\ result # NoErr) =>
                errOut = <<[prefix |-> Prog, text |-> result]>>
          /\ (exitCode = 0) => errOut = <<>>
          /\ Count("msg") <= 1

C3_Witness ==
    /\ Exited /\ validation = "Accepted" /\ result # NoErr
    /\ exitCode = 1 /\ LastErr.prefix = Prog

----------------------------------------------------------------------------
(* C4 *)

\* C4: for rm with the bucket set and a positional argument: under --force
\* there is no prompt and the validation accepts whatever the prompt would
\* have answered; without it there is one prompt, the validation accepts
\* exactly when the prompt answers true, and a false answer or a failed
\* prompt is rejected with exactly "Canceled." and exit code 1.
C4_RmConfirmation ==
    (Checked("rm") /\ Bucket # "" /\ NArg >= 1) =>
        IF forceFlag
        THEN Count("prompt") = 0 /\ validation = "Accepted"
        ELSE /\ Count("prompt") = 1
             /\ (validation = "Accepted") <=> (ask.answer /\ ~ask.failed)
             /\ (~ask.answer \/ ask.failed) => RejectedWith(MsgCanceled)

C4_Witness ==
    /\ Checked("rm") /\ Bucket # "" /\ NArg >= 1
    /\ forceFlag /\ ~ask.answer /\ validation = "Accepted"

----------------------------------------------------------------------------
(* C5 *)

\* C5: for head with the bucket set and a positional argument, the
\* validation accepts exactly when the first argument holds exactly one
\* '.'; any other first argument is rejected with exit code 1 and the
\* message about '.'.
C5_HeadShape ==
    (Checked("head") /\ Bucket # "" /\ NArg >= 1) =>
        IF Dots(args[1]) = 1
        THEN validation = "Accepted"
        ELSE RejectedWith(MsgHeadDot)

C5_Witness ==
    /\ Checked("head") /\ Bucket # "" /\ NArg >= 1
    /\ Dots(args[1]) = 2 /\ RejectedWith(MsgHeadDot)

----------------------------------------------------------------------------
(* C6 *)

\* C6: for mk with the bucket set and a positional argument, the validation
\* accepts exactly when the first argument holds no '.'; a table-qualified
\* name is rejected with exit code 1 and the message pointing to load.
C6_MkShape ==
    (Checked("mk") /\ Bucket # "" /\ NArg >= 1) =>
        IF Dots(args[1]) = 0
        THEN validation = "Accepted"
        ELSE RejectedWith(MsgMkLoad)

C6_Witness ==
    /\ Checked("mk") /\ Bucket # "" /\ NArg >= 1
    /\ args[1] = <<"a", ".", "a">> /\ RejectedWith(MsgMkLoad)

----------------------------------------------------------------------------
(* C7 *)

Source == IF NArg >= 2 THEN args[2] ELSE <<>>

FormatSupported == formatFlag \in {Unset, "NEWLINE_DELIMITED_JSON"}

----------------------------------------------------------------------------
(* C8 *)

\* C8: a run without a subcommand, or whose first token is no registered
\* command name, writes the names query, ls, head, mk, rm, load in that
\* order, runs no Before, no prompt and no action handler, and ends with
\* exit code 0.
C8_Fallback ==
    (Exited /\ name \notin {"query", "ls", "head", "mk", "rm", "load"}) =>
        /\ listing = <<"query", "ls", "head", "mk", "rm", "load">>
        /\ Count("before") = 0
        /\ Count("prompt") = 0
        /\ Count("action") = 0
        /\ validation = "None"
        /\ errOut = <<>>
        /\ exitCode = 0

C8_Witness == Exited /\ name = "foo" /\ NArg = 2 /\ exitCode = 0 /\ listing # <<>>

----------------------------------------------------------------------------
(* C9 *)

Rule(check, fails, message) == [check |-> check, fails |-> fails, msg |-> message]

\* The rules of the command, in the order of the rule table.
RuleTable ==
    CASE command = "query" ->
           << Rule("args", NArg = 0, MsgQuery),
              Rule("bucket", Bucket = "", MsgBucket) >>
      [] command = "ls" ->
           << Rule("bucket", Bucket = "", MsgBucket) >>
      [] command = "head" ->
           << Rule("bucket", Bucket = "", MsgBucket),
              Rule("args", NArg = 0, MsgHeadArgs),
              Rule("shape", Dots(First) # 1, MsgHeadDot) >>
      [] command = "mk" ->
           << Rule("bucket", Bucket = "", MsgBucket),
              Rule("args", NArg = 0, MsgMkArgs),
              Rule("shape", Dots(First) >= 1, MsgMkLoad) >>
      [] command = "rm" ->
           << Rule("bucket", Bucket = "", MsgBucket),
              Rule("args", NArg = 0, MsgRmArgs),
              Rule("confirm", ~forceFlag /\ ~ask.answer, MsgCanceled) >>
      [] command = "load" ->
           << Rule("bucket", Bucket = "", MsgBucket),
              Rule("source", ~IsS3(Source), MsgSource),
              Rule("format", ~FormatSupported, MsgFormat) >>
      [] OTHER -> <<>>

Failing == {i \in 1..Len(RuleTable) : RuleTable[i].fails}

FirstFailing == CHOOSE i \in Failing : \A j \in Failing : i <= j

\* C9: when an invocation breaks rules of its command, the rejection carries
\* the message of the first broken rule in the order of the rule table, and
\* the rules after it are not evaluated; when it breaks none, all are
\* evaluated and the validation accepts.
C9_FirstFailingRule ==
    (command # NoCommand /\ validation # "None") =>
        IF Failing = {}
        THEN /\ validation = "Accepted"
             /\ Evaluated = [i \in 1..Len(RuleTable) |-> RuleTable[i].check]
        ELSE /\ RejectedWith(RuleTable[FirstFailing].msg)
             /\ Evaluated = [i \in 1..FirstFailing |-> RuleTable[i].check]

C9_Witness ==
    /\ Checked("query") /\ Failing = {1, 2}
    /\ RejectedWith(MsgQuery) /\ Evaluated = <<"args">>

----------------------------------------------------------------------------
(* C10 *)

\* C10: a run prompts at most once, and only for rm with the bucket set, a
\* positional argument given and --force not set; the prompt comes after
\* the parsing and before any action handler runs.
C10_Prompt ==
    /\ Count("prompt") <= 1
    /\ Count("prompt") = 1 =>
          /\ command = "rm"
          /\ Bucket # ""
          /\ NArg >= 1
          /\ ~forceFlag
          /\ Count("parse") = 1
          /\ Pos("parse") < Pos("prompt")
          /\ Count("action") > 0 => Pos("prompt") < Pos("action")

C10_Witness ==
    /\ Exited /\ Count("prompt") = 1 /\ Count("action") = 1
    /\ Pos("prompt") < Pos("action")

====
